---------------------------- MODULE Spec2Model ----------------------------
(***************************************************************************)
(* Model of the GeneralScaler controller                                   *)
(* (src/src/generic_autoscaler/controller.py): the PolicyEngine, the       *)
(* SafetyManager with its cooldown ledger, the per-scaler reconciler and   *)
(* the controller loop.                                                    *)
(*                                                                         *)
(* Numbers.  The program computes with Python floats.  Metric samples,     *)
(* sloTarget and maxCostPerReplica are integers here.  The SLO policy is   *)
(* computed in binary64 as the program computes it (section Python         *)
(* floats), since its product current * (m / target) is rounded before it  *)
(* is truncated.  The cost policy keeps every quotient as a pair           *)
(* (numerator, denominator): the sample values, costs and list lengths     *)
(* the specifications draw from are ones on which its float comparisons    *)
(* and truncations agree with the exact ones.                              *)
(*                                                                         *)
(* Line 93 of controller.py lacks the colon that ends its `if`; the model  *)
(* reads lines 92-94 as the conditional increment they spell.              *)
(*                                                                         *)
(* Time is in seconds.  Dictionaries are functions whose DOMAIN is the set *)
(* of keys present; strings that the program inspects character by         *)
(* character (durations) are sequences of one-character strings.           *)
(***************************************************************************)
EXTENDS Integers, Sequences, FiniteSets, TLC

-----------------------------------------------------------------------------
(* Python primitives                                                       *)

\* {}
EmptyDict == [x \in {} |-> 0]

\* dict.get(key, default)
Get(d, key, default) == IF key \in DOMAIN d THEN d[key] ELSE default

Min(a, b) == IF a < b THEN a ELSE b

Max(a, b) == IF a > b THEN a ELSE b

\* int(n / d) for d > 0: the quotient truncated toward zero
Trunc(n, d) == IF n >= 0 THEN n \div d ELSE -((-n) \div d)

RECURSIVE Sum(_)
Sum(s) == IF s = << >> THEN 0 ELSE Head(s) + Sum(Tail(s))

DigitChars == <<"0", "1", "2", "3", "4", "5", "6", "7", "8", "9">>

IsDigit(c) == \E i \in 1..10 : DigitChars[i] = c

DigitVal(c) == (CHOOSE i \in 1..10 : DigitChars[i] = c) - 1

\* the number a run of decimal digits denotes
DigitsValue(s) ==
    LET value[i \in 0..Len(s)] ==
            IF i = 0 THEN 0 ELSE 10 * value[i - 1] + DigitVal(s[i])
    IN  value[Len(s)]

RECURSIVE Strip(_)
Strip(s) ==
    IF s = << >> THEN s
    ELSE IF Head(s) = " " THEN Strip(Tail(s))
    ELSE IF s[Len(s)] = " " THEN Strip(SubSeq(s, 1, Len(s) - 1))
    ELSE s

\* int() of a string without surrounding blanks
PyIntStripped(s) ==
    LET signed == s # << >> /\ Head(s) \in {"+", "-"}
        digits == IF signed THEN Tail(s) ELSE s
        ok     == digits # << >> /\ \A i \in 1..Len(digits) : IsDigit(digits[i])
    IN  [ok    |-> ok,
         value |-> IF ~ok THEN 0
                   ELSE IF signed /\ Head(s) = "-" THEN -DigitsValue(digits)
                   ELSE DigitsValue(digits)]

\* int(str): surrounding blanks, an optional sign, then one or more decimal
\* digits; anything else is a ValueError.  (The set {Strip(str)} has the
\* stripped string evaluated once.)
PyInt(str) == CHOOSE r \in {PyIntStripped(s) : s \in {Strip(str)}} : TRUE

-----------------------------------------------------------------------------
(* Python floats (IEEE 754 binary64, round to nearest, ties to even).  A   *)
(* float x >= 0 is the pair of an integer significand m < 2^53 and an      *)
(* exponent e with x = m * 2^e.  Significands and the wider intermediate   *)
(* results are naturals written in base 2^15, lowest limb first, << >>     *)
(* being zero.                                                             *)

MantissaBits == 53

LimbBits == 15

LimbBase == 32768

\* bits of a dividend: a quotient by a divisor below 2^10 then has from 58
\* to 68 bits
DividendBits == 68

\* the limbs of an integer n >= 0
RECURSIVE BigOfInt(_)
BigOfInt(n) ==
    IF n = 0 THEN << >> ELSE <<n % LimbBase>> \o BigOfInt(n \div LimbBase)

\* the integer a natural below 2^31 denotes
RECURSIVE IntOfBig(_)
IntOfBig(a) ==
    IF a = << >> THEN 0 ELSE Head(a) + LimbBase * IntOfBig(Tail(a))

\* without its leading zero limbs
RECURSIVE Normal(_)
Normal(a) ==
    IF a = << >> \/ a[Len(a)] # 0 THEN a
    ELSE Normal(SubSeq(a, 1, Len(a) - 1))

\* number of bits of an integer 0 < v < 2^15
SmallBitLen(v) == CHOOSE k \in 1..LimbBits : 2^(k - 1) <= v /\ v < 2^k

\* number of bits of a natural
BitLen(a) ==
    IF a = << >> THEN 0
    ELSE LimbBits * (Len(a) - 1) + SmallBitLen(a[Len(a)])

\* a * c for an integer 0 <= c <= 2^15
BigMulSmall(a, c) ==
    LET carry[i \in 0..Len(a)] ==
            IF i = 0 THEN 0 ELSE (a[i] * c + carry[i - 1]) \div LimbBase
    IN  CHOOSE r \in {Normal([i \in 1..(Len(a) + 1) |->
                         IF i <= Len(a) THEN (a[i] * c + up[i - 1]) % LimbBase
                         ELSE up[Len(a)]]) : up \in {carry}} : TRUE

\* quotient and remainder of a by an integer 0 < d <= 2^15
BigDivSmall(a, d) ==
    LET rem[i \in 1..(Len(a) + 1)] ==
            IF i = Len(a) + 1 THEN 0 ELSE (rem[i + 1] * LimbBase + a[i]) % d
    IN  CHOOSE r \in {[quot |-> Normal([i \in 1..Len(a) |->
                                  (left[i + 1] * LimbBase + a[i]) \div d]),
                       rem  |-> left[1]] : left \in {rem}} : TRUE

\* a * 2^s
BigShiftLeft(a, s) ==
    IF a = << >> THEN a
    ELSE [i \in 1..(s \div LimbBits) |-> 0] \o BigMulSmall(a, 2^(s % LimbBits))

\* floor(a / 2^s)
BigShiftRight(a, s) ==
    IF s \div LimbBits >= Len(a) THEN << >>
    ELSE BigDivSmall(SubSeq(a, s \div LimbBits + 1, Len(a)),
                     2^(s % LimbBits)).quot

\* a + 1
BigInc(a) ==
    LET carry[i \in 0..Len(a)] ==
            IF i = 0 THEN 1 ELSE (a[i] + carry[i - 1]) \div LimbBase
    IN  CHOOSE r \in {Normal([i \in 1..(Len(a) + 1) |->
                         IF i <= Len(a) THEN (a[i] + up[i - 1]) % LimbBase
                         ELSE up[Len(a)]]) : up \in {carry}} : TRUE

FloatZero == [m |-> << >>, e |-> 0]

\* the quotient of a cut at the rounding position, rounded to nearest, ties
\* to even: `half` is the weight of the first bit cut off
RoundCut(cut, half, sticky) ==
    IF \/ cut.rem > half
       \/ cut.rem = half /\ (sticky \/ cut.quot[1] % 2 = 1)
    THEN BigInc(cut.quot)
    ELSE cut.quot

\* the float nearest to (a + f) * 2^e, where 0 <= f < 1 and `sticky` tells
\* whether f > 0; a has at most 68 bits
RoundFloat(a, e, sticky) ==
    IF BitLen(a) <= MantissaBits THEN [m |-> a, e |-> e]
    ELSE LET drop == BitLen(a) - MantissaBits
         IN  CHOOSE r \in {IF BitLen(m) > MantissaBits
                            THEN [m |-> BigDivSmall(m, 2).quot, e |-> e + drop + 1]
                            ELSE [m |-> m, e |-> e + drop] :
                            m \in {RoundCut(cut, 2^(drop - 1), sticky) :
                                      cut \in {BigDivSmall(a, 2^drop)}}} : TRUE

\* float(n) for an integer 0 <= n < 2^31
FloatOfInt(n) == [m |-> BigOfInt(n), e |-> 0]

\* x / d for a float x >= 0 and an integer-valued float d, 0 < d < 2^10
FloatDiv(x, d) ==
    IF x.m = << >> THEN FloatZero
    ELSE LET shift == DividendBits - BitLen(x.m)
         IN  CHOOSE r \in {RoundFloat(cut.quot, x.e - shift, cut.rem # 0) :
                            cut \in {BigDivSmall(wide, d) :
                                        wide \in {BigShiftLeft(x.m, shift)}}} : TRUE

\* c * x for an integer 0 <= c < 2^15 and a float x >= 0
FloatMul(c, x) ==
    IF x.m = << >> \/ c = 0 THEN FloatZero
    ELSE CHOOSE r \in {RoundFloat(p, x.e, FALSE) : p \in {BigMulSmall(x.m, c)}} : TRUE

\* int(x) for a float 0 <= x < 2^31
IntOfFloat(x) ==
    CHOOSE n \in {IntOfBig(a) : a \in {IF x.e >= 0 THEN BigShiftLeft(x.m, x.e)
                                       ELSE BigShiftRight(x.m, -x.e)}} : TRUE

-----------------------------------------------------------------------------
(* PolicyEngine                                                            *)

DefaultSloTarget == 80

DefaultMaxCostPerReplica == 5

DefaultMinReplicas == 1

DefaultMaxReplicas == 10

\* int(current_replicas * ratio), ratio = mean / target if target > 0 else 1
slo_based_scaling(current_replicas, metrics, policy_config, scaler_config) ==
    LET target       == Get(policy_config, "sloTarget", DefaultSloTarget)
        n            == IF metrics # << >> THEN Len(metrics) ELSE 1
        total        == IF metrics # << >> THEN Sum(metrics) ELSE 0
        desired      == IF target > 0
                        THEN CHOOSE d \in {IntOfFloat(product) :
                                 product \in {FloatMul(current_replicas, ratio) :
                                    ratio \in {FloatDiv(current_metric, target) :
                                       current_metric \in {FloatDiv(sum, n) :
                                          sum \in {FloatOfInt(total)}}}}} : TRUE
                        ELSE current_replicas
        min_replicas == Get(scaler_config, "minReplicas", DefaultMinReplicas)
        max_replicas == Get(scaler_config, "maxReplicas", DefaultMaxReplicas)
    IN  Max(min_replicas, Min(max_replicas, desired))

\* cost_aware_scaling without the maxReplicas cap of its scale-up branch
cost_aware_scaling_uncapped(current_replicas, metrics, policy_config, scaler_config) ==
    LET max_cost     == Get(policy_config, "maxCostPerReplica",
                            DefaultMaxCostPerReplica)
        n            == IF metrics # << >> THEN Len(metrics) ELSE 1
        total        == IF metrics # << >> THEN Sum(metrics) ELSE 0
        cr           == IF current_replicas > 0 THEN current_replicas ELSE 1
        cprNum       == IF current_replicas > 0 THEN total ELSE 0
        cprDen       == n * cr
        min_replicas == Get(scaler_config, "minReplicas", DefaultMinReplicas)
        up_int       == Trunc(total, n * max_cost)
        up_ratio     == IF total > up_int * n * max_cost
                        THEN up_int + 1 ELSE up_int
        down_ratio   == Trunc(10 * total, 8 * n * max_cost)
    IN  IF cprNum > max_cost * cprDen
        THEN up_ratio
        ELSE IF 10 * cprNum < 5 * max_cost * cprDen
        THEN Max(down_ratio, min_replicas)
        ELSE current_replicas

\* cost_aware_scaling without the ceiling adjustment of lines 93-94
cost_aware_scaling_floor(current_replicas, metrics, policy_config, scaler_config) ==
    LET max_cost     == Get(policy_config, "maxCostPerReplica",
                            DefaultMaxCostPerReplica)
        n            == IF metrics # << >> THEN Len(metrics) ELSE 1
        total        == IF metrics # << >> THEN Sum(metrics) ELSE 0
        cr           == IF current_replicas > 0 THEN current_replicas ELSE 1
        cprNum       == IF current_replicas > 0 THEN total ELSE 0
        cprDen       == n * cr
        max_replicas == Get(scaler_config, "maxReplicas", DefaultMaxReplicas)
        min_replicas == Get(scaler_config, "minReplicas", DefaultMinReplicas)
        up_int       == Trunc(total, n * max_cost)
        down_ratio   == Trunc(10 * total, 8 * n * max_cost)
    IN  IF cprNum > max_cost * cprDen
        THEN Min(up_int, max_replicas)
        ELSE IF 10 * cprNum < 5 * max_cost * cprDen
        THEN Max(down_ratio, min_replicas)
        ELSE current_replicas

cost_aware_scaling(current_replicas, metrics, policy_config, scaler_config) ==
    LET max_cost     == Get(policy_config, "maxCostPerReplica",
                            DefaultMaxCostPerReplica)
        n            == IF metrics # << >> THEN Len(metrics) ELSE 1
        total        == IF metrics # << >> THEN Sum(metrics) ELSE 0
        \* cost_per_replica = total / (n * cr), or 0 when current_replicas = 0
        cr           == IF current_replicas > 0 THEN current_replicas ELSE 1
        cprNum       == IF current_replicas > 0 THEN total ELSE 0
        cprDen       == n * cr
        max_replicas == Get(scaler_config, "maxReplicas", DefaultMaxReplicas)
        min_replicas == Get(scaler_config, "minReplicas", DefaultMinReplicas)
        \* int(current_metric / max_cost), then + 1 if the quotient is larger
        up_int       == Trunc(total, n * max_cost)
        up_ratio     == IF total > up_int * n * max_cost
                        THEN up_int + 1 ELSE up_int
        \* int(current_metric / (max_cost * 0.8))
        down_ratio   == Trunc(10 * total, 8 * n * max_cost)
    IN  IF cprNum > max_cost * cprDen
        THEN Min(up_ratio, max_replicas)
        ELSE IF 10 * cprNum < 5 * max_cost * cprDen
        THEN Max(down_ratio, min_replicas)
        ELSE current_replicas

calculate_desired_replicas(current_replicas, metrics, policy_config, scaler_config) ==
    LET policy_type == Get(policy_config, "type", "slo")
    IN  IF policy_type = "slo"
        THEN slo_based_scaling(current_replicas, metrics, policy_config,
                               scaler_config)
        ELSE IF policy_type = "cost"
        THEN cost_aware_scaling(current_replicas, metrics, policy_config,
                                scaler_config)
        ELSE current_replicas

-----------------------------------------------------------------------------
(* SafetyManager                                                           *)

DefaultCooldown == <<"5", "m">>

DefaultMaxScaleRate == 2

InvalidDurationSeconds == 300

units == [s |-> 1, m |-> 60, h |-> 3600, d |-> 86400]

\* duration_str[-1] raises IndexError on the empty string; a ValueError of
\* int() is caught and yields 300; an unknown unit letter multiplies by 1
parse_duration(duration_str) ==
    IF duration_str = << >>
    THEN [exc |-> "IndexError", value |-> 0]
    ELSE CHOOSE r \in
           {IF body.ok
            THEN [exc   |-> "none",
                  value |-> body.value
                            * Get(units, duration_str[Len(duration_str)], 1)]
            ELSE [exc |-> "none", value |-> InvalidDurationSeconds] :
              body \in {PyInt(SubSeq(duration_str, 1, Len(duration_str) - 1))}} :
           TRUE

\* f'scale{direction.capitalize()}Cooldown'
cooldown_key(direction) ==
    IF direction = "up" THEN "scaleUpCooldown" ELSE "scaleDownCooldown"

\* can_scale at time `now` (time.time()) against the ledger
\* (self.last_scale_operations)
\* can_scale that still refuses when exactly the cooldown has elapsed
can_scale_inclusive(ledger, now, scaler_name, safety_config, direction) ==
    LET last_scale      == Get(ledger, scaler_name, 0)
        time_since_last == now - last_scale
    IN  CHOOSE r \in
          {IF cooldown.exc # "none"
           THEN [exc |-> cooldown.exc, ret |-> FALSE]
           ELSE [exc |-> "none", ret |-> ~(time_since_last <= cooldown.value)] :
             cooldown \in {parse_duration(Get(safety_config,
                                              cooldown_key(direction),
                                              DefaultCooldown))}} :
          TRUE

can_scale(ledger, now, scaler_name, safety_config, direction) ==
    LET last_scale      == Get(ledger, scaler_name, 0)
        time_since_last == now - last_scale
    IN  CHOOSE r \in
          {IF cooldown.exc # "none"
           THEN [exc |-> cooldown.exc, ret |-> FALSE]
           ELSE [exc |-> "none", ret |-> ~(time_since_last < cooldown.value)] :
             cooldown \in {parse_duration(Get(safety_config,
                                              cooldown_key(direction),
                                              DefaultCooldown))}} :
          TRUE

\* apply_rate_limits whose scale-down branch takes the lower of the two
apply_rate_limits_min(current, desired, safety_config) ==
    LET max_rate == Get(safety_config, "maxScaleRate", DefaultMaxScaleRate)
    IN  IF desired > current
        THEN Min(current + max_rate, desired)
        ELSE IF desired < current
        THEN Min(current - max_rate, desired)
        ELSE desired

apply_rate_limits(current, desired, safety_config) ==
    LET max_rate == Get(safety_config, "maxScaleRate", DefaultMaxScaleRate)
    IN  IF desired > current
        THEN Min(current + max_rate, desired)
        ELSE IF desired < current
        THEN Max(current - max_rate, desired)
        ELSE desired

\* record_scale_operation that loses the write
record_scale_operation_lost(ledger, now, scaler_name) == ledger

record_scale_operation(ledger, now, scaler_name) ==
    (scaler_name :> now) @@ ledger

-----------------------------------------------------------------------------
(* State                                                                   *)

VARIABLES
    clock,                  \* time.time(), in seconds
    last_scale_operations,  \* SafetyManager.last_scale_operations
    probe,                  \* a direct call of a PolicyEngine / SafetyManager
                            \* method: its arguments and, once made, its result
    recorded,               \* history: scaler name -> the time at which
                            \* record_scale_operation was last called for it
    scalers,                \* the GeneralScaler objects the list call returns
    deployments,            \* orchestrator: <<namespace, name>> -> spec.replicas
    loop,                   \* GeneralScalerController.run: where it stands
    tasks,                  \* the _reconcile_scaler coroutines, per scaler
    status,                 \* the status subresource of each scaler object
    scale_log               \* history: per scaler and direction, the time of
                            \* the last successful target patch and the
                            \* shortest time seen between two of them

ctlVars == <<scalers, deployments, loop, tasks, status, scale_log>>

vars == <<clock, last_scale_operations, probe, recorded, scalers, deployments,
          loop, tasks, status, scale_log>>

NoProbe == [fn |-> "none", done |-> FALSE]

\* no controller: the state of the specifications that call the PolicyEngine
\* and the SafetyManager directly
NoController ==
    /\ scalers = << >>
    /\ deployments = EmptyDict
    /\ loop = [pc |-> "none"]
    /\ tasks = << >>
    /\ status = << >>
    /\ scale_log = << >>

-----------------------------------------------------------------------------
(* PureSpec: direct calls of PolicyEngine.calculate_desired_replicas and   *)
(* SafetyManager.apply_rate_limits on arguments drawn from bounded sets    *)

MaxCurrent == 12

MaxSamples == 2

MaxRate == 3

SampleValues == {0, 10, 50, 55, 75, 150}

SampleLists == UNION {[1..n -> SampleValues] : n \in 0..MaxSamples}

PolicyConfigs ==
    {[type |-> "slo"], [type |-> "cost"], [type |-> "latency"]}
    \cup {[sloTarget |-> t] : t \in {0, 50}}
    \cup {[type |-> "slo", sloTarget |-> t] : t \in {40, 55, 80}}
    \cup {[type |-> "cost", maxCostPerReplica |-> c] : c \in {5, 10, 20}}

BoundsConfigs ==
    {[targetRef |-> [name |-> "web"]]}
    \cup {[minReplicas |-> lo, maxReplicas |-> hi] :
             lo \in {1, 2, 4}, hi \in {4, 10}}
    \cup {[minReplicas |-> 1, maxReplicas |-> 20]}

RateConfigs ==
    {[scaleUpCooldown |-> <<"3", "0", "s">>]}
    \cup {[maxScaleRate |-> r] : r \in 0..MaxRate}

PolicyProbes ==
    [fn : {"calculate_desired_replicas"}, done : {FALSE}, result : {0},
     current_replicas : 0..MaxCurrent, metrics : SampleLists,
     policy_config : PolicyConfigs, scaler_config : BoundsConfigs]

RateProbes ==
    [fn : {"apply_rate_limits"}, done : {FALSE}, result : {0},
     current : -1..MaxCurrent, desired : -1..MaxCurrent,
     safety_config : RateConfigs]

PureInit ==
    /\ clock = 0
    /\ last_scale_operations = EmptyDict
    /\ probe \in PolicyProbes \cup RateProbes
    /\ recorded = << >>
    /\ NoController

EvalPolicy ==
    /\ probe.fn = "calculate_desired_replicas"
    /\ ~probe.done
    /\ probe' = [probe EXCEPT
                    !.done = TRUE,
                    !.result = calculate_desired_replicas(
                                   probe.current_replicas, probe.metrics,
                                   probe.policy_config, probe.scaler_config)]
    /\ UNCHANGED <<clock, last_scale_operations, recorded, ctlVars>>

EvalRateLimits ==
    /\ probe.fn = "apply_rate_limits"
    /\ ~probe.done
    /\ probe' = [probe EXCEPT
                    !.done = TRUE,
                    !.result = apply_rate_limits(probe.current, probe.desired,
                                                 probe.safety_config)]
    /\ UNCHANGED <<clock, last_scale_operations, recorded, ctlVars>>

PureNext == EvalPolicy \/ EvalRateLimits

PureSpec == PureInit /\ [][PureNext]_vars

-----------------------------------------------------------------------------
(* SafetySpec: one SafetyManager driven directly, as the unit tests drive  *)
(* it with a patched time.time(): record_scale_operation and can_scale     *)
(* calls at chosen instants                                                *)

MaxSmOffset == 4

SmInstants == {b + i : b \in {0, 60, 100, 300}, i \in 0..MaxSmOffset}

SmNames == {"web", "api"}

\* duration strings with the number of seconds each one configures
DurationTable ==
    {[text |-> <<"2", "s">>, seconds |-> 2],
     [text |-> <<"4", "s">>, seconds |-> 4],
     [text |-> <<"3", "0", "s">>, seconds |-> 30],
     [text |-> <<"1", "m">>, seconds |-> 60],
     [text |-> <<"5", "m">>, seconds |-> 300]}

SecondsOf(text) == (CHOOSE e \in DurationTable : e.text = text).seconds

SmSafetyConfigs ==
    {[maxScaleRate |-> 2],
     [scaleUpCooldown |-> <<"2", "s">>, scaleDownCooldown |-> <<"4", "s">>],
     [scaleUpCooldown |-> <<"1", "m">>, scaleDownCooldown |-> <<"2", "s">>]}

SafetyInit ==
    /\ clock \in SmInstants
    /\ last_scale_operations = EmptyDict
    /\ probe = NoProbe
    /\ recorded = << >>
    /\ NoController

\* the patched time.time() moves to a later instant
SmAdvance ==
    /\ \E t \in SmInstants : t > clock /\ clock' = t
    /\ probe' = NoProbe
    /\ UNCHANGED <<last_scale_operations, recorded, ctlVars>>

SmRecord(name) ==
    /\ last_scale_operations' =
           record_scale_operation(last_scale_operations, clock, name)
    /\ recorded' = (name :> clock) @@ recorded
    /\ probe' = NoProbe
    /\ UNCHANGED <<clock, ctlVars>>

SmCanScale(name, cfg, direction) ==
    /\ probe' = [fn |-> "can_scale", done |-> TRUE,
                 scaler_name |-> name, safety_config |-> cfg,
                 direction |-> direction, now |-> clock,
                 result |-> can_scale(last_scale_operations, clock, name,
                                      cfg, direction)]
    /\ UNCHANGED <<clock, last_scale_operations, recorded, ctlVars>>

SafetyNext ==
    \/ SmAdvance
    \/ \E name \in SmNames : SmRecord(name)
    \/ \E name \in SmNames, cfg \in SmSafetyConfigs, direction \in {"up", "down"} :
          SmCanScale(name, cfg, direction)

SafetySpec == SafetyInit /\ [][SafetyNext]_vars

-----------------------------------------------------------------------------
(* ParseSpec: direct calls of SafetyManager._parse_duration on strings     *)
(* drawn from a small alphabet                                             *)

MaxDurLen == 3

DurationChars == {"0", "3", "5", "s", "m", "h", "d", "x", "-", " "}

DurationStrings == UNION {[1..n -> DurationChars] : n \in 0..MaxDurLen}

ParseInit ==
    /\ clock = 0
    /\ last_scale_operations = EmptyDict
    /\ probe \in [fn : {"parse_duration"}, done : {FALSE},
                  duration_str : DurationStrings, result : {NoProbe}]
    /\ recorded = << >>
    /\ NoController

EvalParse ==
    /\ probe.fn = "parse_duration"
    /\ ~probe.done
    /\ probe' = [probe EXCEPT !.done = TRUE,
                              !.result = parse_duration(probe.duration_str)]
    /\ UNCHANGED <<clock, last_scale_operations, recorded, ctlVars>>

ParseNext == EvalParse

ParseSpec == ParseInit /\ [][ParseNext]_vars

-----------------------------------------------------------------------------
(* Metric plugins                                                          *)

\* `word in text` for Python strings
Contains(text, word) ==
    \E i \in 0..(Len(text) - Len(word)) : SubSeq(text, i + 1, i + Len(word)) = word

PrometheusPlugin_get_metric(config) ==
    LET query == Get(config, "query", << >>)
    IN  IF Contains(query, <<"c", "p", "u">>) THEN 75
        ELSE IF Contains(query, <<"m", "e", "m", "o", "r", "y">>) THEN 65
        ELSE IF Contains(query, <<"h", "t", "t", "p", "_", "r", "e", "q", "u",
                                  "e", "s", "t">>) THEN 150
        ELSE 50

RedisPlugin_get_metric(config) == 10

metric_plugins == {"prometheus", "redis"}

\* the samples of the known plugins, in configuration order; an unknown plugin
\* name contributes nothing
RECURSIVE collect_metrics(_)
collect_metrics(metrics_config) ==
    IF metrics_config = << >> THEN << >>
    ELSE LET metric_config == Head(metrics_config)
             plugin_name   == Get(metric_config, "plugin", "None")
             config        == Get(metric_config, "config", EmptyDict)
             rest          == collect_metrics(Tail(metrics_config))
         IN  IF plugin_name = "prometheus"
             THEN <<PrometheusPlugin_get_metric(config)>> \o rest
             ELSE IF plugin_name = "redis"
             THEN <<RedisPlugin_get_metric(config)>> \o rest
             ELSE rest

-----------------------------------------------------------------------------
(* Reconciler: one _reconcile_scaler coroutine                             *)

TickSleep == 30

ErrorSleep == 10

FreeTask ==
    [pc |-> "free", replicas |-> 0, current_replicas |-> 0,
     desired_replicas |-> 0, limited_replicas |-> 0,
     status_replicas |-> 0, reason |-> "none"]

\* scaler['metadata']['name'] raises KeyError
MetadataMissing(scaler) ==
    \/ "metadata" \notin DOMAIN scaler
    \/ "name" \notin DOMAIN scaler.metadata

Namespace(scaler) == Get(scaler.metadata, "namespace", "default")

Spec_(scaler) == Get(scaler, "spec", EmptyDict)

TargetName(scaler) == Get(Get(Spec_(scaler), "targetRef", EmptyDict), "name", "")

\* next_step without the early return of lines 274-277 and without the
\* `limited != current` test of line 293
next_step_always_patch(current_replicas, desired_replicas, allowed, limited_replicas) ==
    IF ~allowed
    THEN [pc |-> "status", status_replicas |-> current_replicas,
          reason |-> "CooldownActive"]
    ELSE [pc |-> "patch", status_replicas |-> limited_replicas,
          reason |-> "ScalingApplied"]

\* the branch the reconciler takes once it has the policy's answer, the
\* cooldown verdict and the rate-limited count: the await it stops at next
\* ("status" or "patch"), and the count and reason of its status patch
next_step(current_replicas, desired_replicas, allowed, limited_replicas) ==
    IF desired_replicas = current_replicas
    THEN [pc |-> "status", status_replicas |-> current_replicas,
          reason |-> "ScalingApplied"]
    ELSE IF ~allowed
    THEN [pc |-> "status", status_replicas |-> current_replicas,
          reason |-> "CooldownActive"]
    ELSE IF limited_replicas # current_replicas
    THEN [pc |-> "patch", status_replicas |-> limited_replicas,
          reason |-> "ScalingApplied"]
    ELSE [pc |-> "status", status_replicas |-> limited_replicas,
          reason |-> "ScalingApplied"]

\* task_after_read without the early return of lines 260-262
task_after_read_unchecked(replicas, current_replicas, metrics, desired_replicas, allowed, limited_replicas) ==
    LET step == next_step(current_replicas, desired_replicas, allowed.ret,
                          limited_replicas)
    IN  IF desired_replicas # current_replicas /\ allowed.exc # "none"
        THEN FreeTask
        ELSE [pc               |-> step.pc,
              replicas         |-> replicas,
              current_replicas |-> current_replicas,
              desired_replicas |-> desired_replicas,
              limited_replicas |-> IF step.pc = "patch"
                                   THEN limited_replicas ELSE 0,
              status_replicas  |-> step.status_replicas,
              reason           |-> step.reason]

\* the coroutine once the synchronous stretch that follows the target read
\* (lines 255-302, up to the next await) is through: `replicas` is
\* deployment.spec.replicas as read, `metrics` the collected samples,
\* `allowed` the verdict of can_scale
task_after_read(replicas, current_replicas, metrics, desired_replicas, allowed, limited_replicas) ==
    LET step == next_step(current_replicas, desired_replicas, allowed.ret,
                          limited_replicas)
    IN  IF metrics = << >>
        THEN FreeTask
        ELSE IF desired_replicas # current_replicas /\ allowed.exc # "none"
        THEN FreeTask
        ELSE [pc               |-> step.pc,
              replicas         |-> replicas,
              current_replicas |-> current_replicas,
              desired_replicas |-> desired_replicas,
              limited_replicas |-> IF step.pc = "patch"
                                   THEN limited_replicas ELSE 0,
              status_replicas  |-> step.status_replicas,
              reason           |-> step.reason]

-----------------------------------------------------------------------------
(* Controller                                                              *)

InitClock == 100

MaxClock == 160

MaxInv == 2

\* time is observed every TickSleep seconds
TimeSteps == {TickSleep}

Slots == 1..MaxInv

Cpu == <<"c", "p", "u">>

HttpRequest == <<"h", "t", "t", "p", "_", "r", "e", "q", "u", "e", "s", "t">>

\* SLO policy on the cpu sample (75 against the default target 80)
WebScaler ==
    [metadata |-> [name |-> "web", namespace |-> "prod"],
     spec |-> [targetRef |-> [name |-> "web"],
               minReplicas |-> 1, maxReplicas |-> 3,
               metrics |-> <<[plugin |-> "prometheus",
                              config |-> [query |-> Cpu]]>>,
               policy |-> [type |-> "slo"],
               safety |-> [scaleUpCooldown |-> <<"3", "0", "s">>,
                           scaleDownCooldown |-> <<"1", "m">>]]]

\* cost policy on the redis sample (10 against the default cost 5)
QueueScaler ==
    [metadata |-> [name |-> "queue", namespace |-> "prod"],
     spec |-> [targetRef |-> [name |-> "worker"],
               minReplicas |-> 2, maxReplicas |-> 4,
               metrics |-> <<[plugin |-> "statsd"], [plugin |-> "redis"]>>,
               policy |-> [type |-> "cost"],
               safety |-> [maxScaleRate |-> 1,
                           scaleUpCooldown |-> <<"1", "m">>,
                           scaleDownCooldown |-> <<"3", "0", "s">>]]]

\* SLO policy on the http_request sample (150 against the target 50)
ApiScaler ==
    [metadata |-> [name |-> "api"],
     spec |-> [targetRef |-> [name |-> "api"],
               metrics |-> <<[plugin |-> "prometheus",
                              config |-> [query |-> HttpRequest]]>>,
               policy |-> [sloTarget |-> 50],
               safety |-> [scaleUpCooldown |-> <<"3", "0", "s">>]]]

\* an object without metadata.name
NamelessScaler ==
    [metadata |-> [namespace |-> "prod"],
     spec |-> [targetRef |-> [name |-> "web"]]]

\* SLO policy on the cpu sample with a rate limit of zero
FrozenScaler ==
    [metadata |-> [name |-> "frozen", namespace |-> "prod"],
     spec |-> [targetRef |-> [name |-> "web"],
               metrics |-> <<[plugin |-> "prometheus",
                              config |-> [query |-> Cpu]]>>,
               safety |-> [maxScaleRate |-> 0,
                           scaleDownCooldown |-> <<"3", "0", "s">>]]]

\* an object without targetRef.name
NoTargetScaler ==
    [metadata |-> [name |-> "untargeted", namespace |-> "prod"],
     spec |-> [targetRef |-> [kind |-> "Deployment"],
               metrics |-> <<[plugin |-> "redis"]>>]]

\* an object whose only metric names an unknown plugin
NoMetricsScaler ==
    [metadata |-> [name |-> "blind", namespace |-> "prod"],
     spec |-> [targetRef |-> [name |-> "web"],
               metrics |-> <<[plugin |-> "statsd"]>>]]

\* a second object named "web", in another namespace
WebScalerStaging ==
    [metadata |-> [name |-> "web", namespace |-> "staging"],
     spec |-> [targetRef |-> [name |-> "web"],
               metrics |-> <<[plugin |-> "prometheus",
                              config |-> [query |-> Cpu]]>>,
               safety |-> [maxScaleRate |-> 0,
                           scaleUpCooldown |-> <<"3", "0", "s">>,
                           scaleDownCooldown |-> <<"3", "0", "s">>]]]

\* SLO policy on the cpu sample that may scale its target down to zero
DrainScaler ==
    [metadata |-> [name |-> "drain", namespace |-> "prod"],
     spec |-> [targetRef |-> [name |-> "batch"],
               minReplicas |-> 0, maxReplicas |-> 3,
               metrics |-> <<[plugin |-> "prometheus",
                              config |-> [query |-> Cpu]]>>,
               policy |-> [type |-> "slo"],
               safety |-> [scaleUpCooldown |-> <<"3", "0", "s">>,
                           scaleDownCooldown |-> <<"1", "m">>]]]

Clusters ==
    {<<WebScaler, QueueScaler>>, <<ApiScaler, NoMetricsScaler>>,
     <<NamelessScaler, WebScaler>>, <<FrozenScaler, QueueScaler>>,
     <<NoTargetScaler, NoMetricsScaler>>, <<WebScaler, WebScalerStaging>>,
     <<DrainScaler, NoMetricsScaler>>}

InitialReplicas == {0, 2, 6}

ScalerIds == {1, 2}

DeploymentKey(scaler) == <<Namespace(scaler), TargetName(scaler)>>

DeploymentKeys(items) == {DeploymentKey(items[i]) : i \in DOMAIN items}

NoScale == [last |-> -1, gap |-> -1]

\* `listed` is how the list call of the current tick ended
Idle ==
    [pc |-> "list", awaiting |-> {}, wake_at |-> 0, delay |-> 0,
     listed |-> "none"]

Init ==
    /\ clock = InitClock
    /\ last_scale_operations = EmptyDict
    /\ probe = NoProbe
    /\ recorded = << >>
    /\ scalers \in Clusters
    /\ deployments \in [DeploymentKeys(scalers) -> InitialReplicas]
    /\ loop = Idle
    /\ tasks = [i \in DOMAIN scalers |-> [k \in Slots |-> FreeTask]]
    /\ status = [i \in DOMAIN scalers |-> [written |-> FALSE,
                                           currentReplicas |-> 0,
                                           reason |-> "none"]]
    /\ scale_log = [i \in DOMAIN scalers |-> [up |-> NoScale, down |-> NoScale]]

\* time passes
Tick ==
    /\ \E d \in TimeSteps : clock + d <= MaxClock /\ clock' = clock + d
    /\ UNCHANGED <<last_scale_operations, probe, recorded, ctlVars>>

HasFreeSlot(i) == \E k \in Slots : tasks[i][k].pc = "free"

FreeSlot(i) ==
    CHOOSE k \in Slots :
        /\ tasks[i][k].pc = "free"
        /\ \A j \in Slots : tasks[i][j].pc = "free" => k <= j

\* the list call returns the scaler objects: one coroutine per object is
\* handed to asyncio.gather
ListScalers ==
    /\ loop.pc = "list"
    /\ \A i \in DOMAIN scalers : HasFreeSlot(i)
    /\ tasks' = [i \in DOMAIN scalers |->
                   [k \in Slots |-> IF k = FreeSlot(i)
                                    THEN [FreeTask EXCEPT !.pc = "start"]
                                    ELSE tasks[i][k]]]
    /\ loop' = [pc |-> "gather",
                awaiting |-> {<<i, FreeSlot(i)>> : i \in DOMAIN scalers},
                wake_at |-> 0, delay |-> 0, listed |-> "returned"]
    /\ UNCHANGED <<clock, last_scale_operations, probe, recorded, scalers,
                   deployments, status, scale_log>>

\* the list call raises ApiException: _get_all_scalers returns [] and the
\* tick gathers nothing
ListApiException ==
    /\ loop.pc = "list"
    /\ loop' = [pc |-> "gather", awaiting |-> {}, wake_at |-> 0, delay |-> 0,
                listed |-> "ApiException"]
    /\ UNCHANGED <<clock, last_scale_operations, probe, recorded, scalers,
                   deployments, tasks, status, scale_log>>

\* the list call raises anything else: it reaches the except of run()
ListOtherException ==
    /\ loop.pc = "list"
    /\ loop' = [pc |-> "sleep", awaiting |-> {},
                wake_at |-> clock + ErrorSleep, delay |-> ErrorSleep,
                listed |-> "Exception"]
    /\ UNCHANGED <<clock, last_scale_operations, probe, recorded, scalers,
                   deployments, tasks, status, scale_log>>

\* asyncio.gather returns once every coroutine of the tick has returned
GatherReturn ==
    /\ loop.pc = "gather"
    /\ loop.awaiting = {}
    /\ loop' = [pc |-> "sleep", awaiting |-> {},
                wake_at |-> clock + TickSleep, delay |-> TickSleep,
                listed |-> loop.listed]
    /\ UNCHANGED <<clock, last_scale_operations, probe, recorded, scalers,
                   deployments, tasks, status, scale_log>>

\* asyncio.sleep returns
Wake ==
    /\ loop.pc = "sleep"
    /\ clock >= loop.wake_at
    /\ loop' = Idle
    /\ UNCHANGED <<clock, last_scale_operations, probe, recorded, scalers,
                   deployments, tasks, status, scale_log>>

\* the coroutine (i, k) moves to task record `t`
SetTask(i, k, t) == [tasks EXCEPT ![i][k] = t]

\* run() after the coroutine (i, k) returned
loop_after_return(l, i, k) == [l EXCEPT !.awaiting = @ \ {<<i, k>>}]

\* loop_after_raise of a run() without its except clause: the exception ends
\* the loop
loop_after_raise_uncaught(l, now, i, k) ==
    IF <<i, k>> \in l.awaiting
    THEN [pc |-> "raised", awaiting |-> {}, wake_at |-> 0, delay |-> 0,
          listed |-> l.listed]
    ELSE l

\* run() after the coroutine (i, k) raised: gather hands the first exception
\* to run(), whose except clause sleeps; the other coroutines keep running
loop_after_raise(l, now, i, k) ==
    IF <<i, k>> \in l.awaiting
    THEN [pc |-> "sleep", awaiting |-> {},
          wake_at |-> now + ErrorSleep, delay |-> ErrorSleep,
          listed |-> l.listed]
    ELSE l

\* tasks_after_failure of a gather that cancels the remaining coroutines
tasks_after_failure_cancelling(ts, i, k) ==
    [j \in DOMAIN ts |-> [l \in DOMAIN ts[j] |-> FreeTask]]

\* the coroutines after the coroutine (i, k) raised or failed
tasks_after_failure(ts, i, k) == [ts EXCEPT ![i][k] = FreeTask]

\* lines 235-253, up to the await of the target read
Begin(i, k) ==
    /\ tasks[i][k].pc = "start"
    /\ IF MetadataMissing(scalers[i])
       THEN /\ tasks' = tasks_after_failure(tasks, i, k)
            /\ loop' = loop_after_raise(loop, clock, i, k)
       ELSE IF TargetName(scalers[i]) = ""
       THEN /\ tasks' = SetTask(i, k, FreeTask)
            /\ loop' = loop_after_return(loop, i, k)
       ELSE /\ tasks' = SetTask(i, k, [FreeTask EXCEPT !.pc = "read"])
            /\ loop' = loop
    /\ UNCHANGED <<clock, last_scale_operations, probe, recorded, scalers,
                   deployments, status, scale_log>>

\* the target read returns the deployment; the coroutine runs on to its next
\* await.  Each value is computed once, in the order of lines 255-291.
ReadReturn(i, k) ==
    /\ tasks[i][k].pc = "read"
    /\ \E spec \in {Spec_(scalers[i])} :
       \E replicas \in {deployments[DeploymentKey(scalers[i])]} :
       \E current_replicas \in {IF replicas = 0 THEN 1 ELSE replicas} :
       \E metrics \in {collect_metrics(Get(spec, "metrics", << >>))} :
       \E desired_replicas \in {calculate_desired_replicas(
                                    current_replicas, metrics,
                                    Get(spec, "policy", EmptyDict), spec)} :
       \E direction \in {IF desired_replicas > current_replicas
                          THEN "up" ELSE "down"} :
       \E safety_config \in {Get(spec, "safety", EmptyDict)} :
       \E allowed \in {can_scale(last_scale_operations, clock,
                                  scalers[i].metadata.name, safety_config,
                                  direction)} :
       \E limited_replicas \in {apply_rate_limits(current_replicas,
                                                  desired_replicas,
                                                  safety_config)} :
       \E t \in {task_after_read(replicas, current_replicas, metrics,
                                 desired_replicas, allowed,
                                 limited_replicas)} :
          /\ tasks' = SetTask(i, k, t)
          /\ loop' = IF t.pc = "free"
                     THEN loop_after_return(loop, i, k) ELSE loop
    /\ UNCHANGED <<clock, last_scale_operations, probe, recorded, scalers,
                   deployments, status, scale_log>>

\* the target read raises (404 or any other error): logged, return
ReadFail(i, k) ==
    /\ tasks[i][k].pc = "read"
    /\ tasks' = tasks_after_failure(tasks, i, k)
    /\ loop' = loop_after_return(loop, i, k)
    /\ UNCHANGED <<clock, last_scale_operations, probe, recorded, scalers,
                   deployments, status, scale_log>>

Direction(t) == IF t.desired_replicas > t.current_replicas THEN "up" ELSE "down"

\* a successful target patch at time `now`, entered in the history
log_scale(entry, now) ==
    [last |-> now,
     gap  |-> IF entry.last < 0 THEN entry.gap
              ELSE IF entry.gap < 0 THEN now - entry.last
              ELSE Min(entry.gap, now - entry.last)]

\* the orchestrator applies the patch {'spec': {'replicas': limited}}
PatchApply(i, k) ==
    /\ tasks[i][k].pc = "patch"
    /\ deployments' = [deployments EXCEPT ![DeploymentKey(scalers[i])] =
                          tasks[i][k].limited_replicas]
    /\ scale_log' = [scale_log EXCEPT ![i][Direction(tasks[i][k])] =
                        log_scale(@, clock)]
    /\ tasks' = SetTask(i, k, [tasks[i][k] EXCEPT !.pc = "patched"])
    /\ UNCHANGED <<clock, last_scale_operations, probe, recorded, scalers,
                   loop, status>>

\* the patch raises: logged, return
PatchFail(i, k) ==
    /\ tasks[i][k].pc = "patch"
    /\ tasks' = tasks_after_failure(tasks, i, k)
    /\ loop' = loop_after_return(loop, i, k)
    /\ UNCHANGED <<clock, last_scale_operations, probe, recorded, scalers,
                   deployments, status, scale_log>>

\* _scale_deployment returns: the scale is recorded, the status patch issued
PatchReturn(i, k) ==
    /\ tasks[i][k].pc = "patched"
    /\ last_scale_operations' =
           record_scale_operation(last_scale_operations, clock,
                                  scalers[i].metadata.name)
    /\ tasks' = SetTask(i, k, [tasks[i][k] EXCEPT !.pc = "status"])
    /\ UNCHANGED <<clock, probe, recorded, scalers, deployments, loop, status,
                   scale_log>>

\* the status patch is applied
StatusReturn(i, k) ==
    /\ tasks[i][k].pc = "status"
    /\ status' = [status EXCEPT ![i] =
                     [written |-> TRUE,
                      currentReplicas |-> tasks[i][k].status_replicas,
                      reason |-> tasks[i][k].reason]]
    /\ tasks' = SetTask(i, k, FreeTask)
    /\ loop' = loop_after_return(loop, i, k)
    /\ UNCHANGED <<clock, last_scale_operations, probe, recorded, scalers,
                   deployments, scale_log>>

\* the status patch raises: a warning, the coroutine returns all the same
StatusFail(i, k) ==
    /\ tasks[i][k].pc = "status"
    /\ tasks' = tasks_after_failure(tasks, i, k)
    /\ loop' = loop_after_return(loop, i, k)
    /\ UNCHANGED <<clock, last_scale_operations, probe, recorded, scalers,
                   deployments, status, scale_log>>

TaskStep(i, k) ==
    \/ Begin(i, k)
    \/ ReadFail(i, k)
    \/ ReadReturn(i, k)
    \/ PatchApply(i, k)
    \/ PatchFail(i, k)
    \/ PatchReturn(i, k)
    \/ StatusReturn(i, k)
    \/ StatusFail(i, k)

Next ==
    \/ Tick
    \/ ListScalers
    \/ ListApiException
    \/ ListOtherException
    \/ GatherReturn
    \/ Wake
    \/ \E i \in DOMAIN scalers, k \in Slots : TaskStep(i, k)

Spec == Init /\ [][Next]_vars

LoopStep ==
    \/ ListScalers
    \/ ListApiException
    \/ ListOtherException
    \/ GatherReturn
    \/ Wake

\* every orchestrator call returns or fails, the event loop runs what is
\* ready, and time passes
FairSpec ==
    /\ Spec
    /\ WF_vars(Tick)
    /\ WF_vars(LoopStep)
    /\ \A i \in ScalerIds, k \in Slots : WF_vars(TaskStep(i, k))

-----------------------------------------------------------------------------
(* SharedTargetSpec: the controller on a listing of three objects, two of  *)
(* which scale the same deployment prod/web from different policies, so    *)
(* that one scaler comes to scale in both directions                       *)

\* SLO policy with the cpu sample on target (75 against 75): keeps its target
\* within [2, 4]
BandScaler ==
    [metadata |-> [name |-> "band", namespace |-> "prod"],
     spec |-> [targetRef |-> [name |-> "web"],
               minReplicas |-> 2, maxReplicas |-> 4,
               metrics |-> <<[plugin |-> "prometheus",
                              config |-> [query |-> Cpu]]>>,
               policy |-> [type |-> "slo", sloTarget |-> 75],
               safety |-> [scaleUpCooldown |-> <<"3", "0", "s">>,
                           scaleDownCooldown |-> <<"1", "m">>]]]

\* SLO policy on the http_request sample (150 against the target 50): triples
\* its target up to 6 replicas, four replicas at a time
SurgeScaler ==
    [metadata |-> [name |-> "surge", namespace |-> "prod"],
     spec |-> [targetRef |-> [name |-> "web"],
               maxReplicas |-> 6,
               metrics |-> <<[plugin |-> "prometheus",
                              config |-> [query |-> HttpRequest]]>>,
               policy |-> [sloTarget |-> 50],
               safety |-> [maxScaleRate |-> 4,
                           scaleUpCooldown |-> <<"3", "0", "s">>]]]

SharedTargetClusters == {<<NamelessScaler, BandScaler, SurgeScaler>>}

\* the target starts scaled to zero, one tick before the last instant
SharedTargetInit ==
    /\ clock = MaxClock - TickSleep
    /\ last_scale_operations = EmptyDict
    /\ probe = NoProbe
    /\ recorded = << >>
    /\ scalers \in SharedTargetClusters
    /\ deployments = [key \in DeploymentKeys(scalers) |-> 0]
    /\ loop = Idle
    /\ tasks = [i \in DOMAIN scalers |-> [k \in Slots |-> FreeTask]]
    /\ status = [i \in DOMAIN scalers |-> [written |-> FALSE,
                                           currentReplicas |-> 0,
                                           reason |-> "none"]]
    /\ scale_log = [i \in DOMAIN scalers |-> [up |-> NoScale, down |-> NoScale]]

SharedTargetSpec == SharedTargetInit /\ [][Next]_vars

-----------------------------------------------------------------------------
(* Properties                                                              *)

PolicyDone == probe.fn = "calculate_desired_replicas" /\ probe.done

ProbeMin == Get(probe.scaler_config, "minReplicas", 1)

ProbeMax == Get(probe.scaler_config, "maxReplicas", 10)

ProbeType == Get(probe.policy_config, "type", "slo")

\* the samples of the probe as a fraction: mean = ProbeTotal / ProbeCount
ProbeTotal == IF probe.metrics = << >> THEN 0 ELSE Sum(probe.metrics)

ProbeCount == IF probe.metrics = << >> THEN 1 ELSE Len(probe.metrics)

ProbeMaxCost == Get(probe.policy_config, "maxCostPerReplica", 5)

\* C6 as stated: calculate_desired_replicas returns a count within
\* [minReplicas, maxReplicas] for every current >= 0, every sample list and
\* every policy type.
C6_DesiredWithinBounds ==
    PolicyDone => (ProbeMin <= probe.result /\ probe.result <= ProbeMax)

\* C6 amended: the result is within [minReplicas, maxReplicas] under the SLO
\* policy for every current >= 0, and under every policy type when current
\* itself is within [minReplicas, maxReplicas].
C6_DesiredWithinBoundsFromWithin ==
    (/\ PolicyDone
     /\ \/ ProbeType = "slo"
        \/ (ProbeMin <= probe.current_replicas
            /\ probe.current_replicas <= ProbeMax))
    => (ProbeMin <= probe.result /\ probe.result <= ProbeMax)

\* a cost-policy call from within the bounds whose result is capped at
\* maxReplicas
C6_Witness ==
    /\ PolicyDone
    /\ ProbeType = "cost"
    /\ ProbeMin <= probe.current_replicas
    /\ probe.current_replicas < ProbeMax
    /\ ProbeTotal > ProbeMax * ProbeCount * ProbeMaxCost
    /\ probe.result = ProbeMax

\* cpr > maxCost, with cpr = mean / current (0 when current = 0)
CostAbove ==
    /\ probe.current_replicas > 0
    /\ ProbeTotal > ProbeMaxCost * ProbeCount * probe.current_replicas

\* cpr < 0.5 * maxCost
CostBelow ==
    \/ probe.current_replicas = 0
    \/ 2 * ProbeTotal < ProbeMaxCost * ProbeCount * probe.current_replicas

\* r = ceil(mean / maxCost)
IsCeilOfCost(r) ==
    /\ (r - 1) * ProbeCount * ProbeMaxCost < ProbeTotal
    /\ ProbeTotal <= r * ProbeCount * ProbeMaxCost

\* f = floor(mean / (0.8 * maxCost))
IsFloorOfDiscountedCost(f) ==
    /\ 4 * f * ProbeCount * ProbeMaxCost <= 5 * ProbeTotal
    /\ 5 * ProbeTotal < 4 * (f + 1) * ProbeCount * ProbeMaxCost

RateDone == probe.fn = "apply_rate_limits" /\ probe.done

ProbeRate == Get(probe.safety_config, "maxScaleRate", 2)

\* C8: apply_rate_limits(current, desired) is desired clamped to
\* [current - R, current + R], so that |result - current| <= R and the result
\* is desired when desired = current.
C8_RateLimitIsClamp ==
    RateDone =>
        /\ probe.result =
              IF probe.desired > probe.current + ProbeRate
              THEN probe.current + ProbeRate
              ELSE IF probe.desired < probe.current - ProbeRate
              THEN probe.current - ProbeRate
              ELSE probe.desired
        /\ probe.result - probe.current <= ProbeRate
        /\ probe.current - probe.result <= ProbeRate
        /\ (probe.desired = probe.current => probe.result = probe.desired)

\* a scale-down of more than R replicas that the limit cuts to current - R
C8_Witness ==
    /\ RateDone
    /\ ProbeRate > 0
    /\ probe.desired < probe.current - ProbeRate
    /\ probe.result = probe.current - ProbeRate

CanScaleDone == probe.fn = "can_scale" /\ probe.done

\* the cooldown the probed configuration sets for the probed direction
ProbeCooldown ==
    SecondsOf(IF probe.direction = "up"
              THEN Get(probe.safety_config, "scaleUpCooldown", <<"5", "m">>)
              ELSE Get(probe.safety_config, "scaleDownCooldown", <<"5", "m">>))

\* C9: after record_scale_operation(key) at time t, can_scale(key, cfg,
\* direction) at time t' returns true exactly when t' - t is at least the
\* cooldown of that direction.
C9_CanScaleIffCooldownElapsed ==
    (CanScaleDone /\ probe.scaler_name \in DOMAIN recorded) =>
        /\ probe.result.exc = "none"
        /\ probe.result.ret =
              (probe.now - recorded[probe.scaler_name] >= ProbeCooldown)

\* can_scale asked at exactly t + cooldown, at t > 0, and answering true
C9_Witness ==
    /\ CanScaleDone
    /\ probe.scaler_name \in DOMAIN recorded
    /\ recorded[probe.scaler_name] > 0
    /\ probe.now - recorded[probe.scaler_name] = ProbeCooldown
    /\ probe.result.ret

\* C10: for a scaler name with no ledger entry can_scale returns true, in
\* both directions, for every cooldown and at every clock value.
C10_NoEntryAlwaysAllowed ==
    (CanScaleDone /\ probe.scaler_name \notin DOMAIN recorded) =>
        (probe.result.exc = "none" /\ probe.result.ret)

TaskIds == ScalerIds \X Slots

Task(id) == tasks[id[1]][id[2]]

ScalerMin(i) == Get(scalers[i].spec, "minReplicas", 1)

ScalerMax(i) == Get(scalers[i].spec, "maxReplicas", 10)

ScalerRate(i) == Get(Get(scalers[i].spec, "safety", EmptyDict), "maxScaleRate", 2)

\* the cooldown scaler i configures for a direction
ScalerCooldown(i, direction) ==
    SecondsOf(Get(Get(scalers[i].spec, "safety", EmptyDict),
                  IF direction = "up" THEN "scaleUpCooldown"
                  ELSE "scaleDownCooldown", <<"5", "m">>))

\* C1: every replica count a reconcile patches onto the target is within
\* [minReplicas, maxReplicas] of its scaler.
C1_PatchWithinBounds ==
    \A id \in TaskIds :
        Task(id).pc = "patch" =>
            /\ ScalerMin(id[1]) <= Task(id).limited_replicas
            /\ Task(id).limited_replicas <= ScalerMax(id[1])

\* C2: every patched replica count differs by at most maxScaleRate from the
\* replica count the target had when the reconcile read it, 0 included.
C2_PatchWithinRateOfTarget ==
    \A id \in TaskIds :
        Task(id).pc = "patch" =>
            /\ Task(id).limited_replicas - Task(id).replicas <= ScalerRate(id[1])
            /\ Task(id).replicas - Task(id).limited_replicas <= ScalerRate(id[1])

\* C3: two successful target patches of one scaler in the same direction are
\* at least that direction's configured cooldown apart.
C3_SameDirectionPatchesCooldownApart ==
    \A i \in ScalerIds : \A direction \in {"up", "down"} :
        scale_log[i][direction].gap >= 0 =>
            scale_log[i][direction].gap >= ScalerCooldown(i, direction)

\* a coroutine ends in this step, by a return or by a failure
Ends(id) == Task(id).pc # "free" /\ tasks'[id[1]][id[2]].pc = "free"

\* C4 (isolation): a step in which the reconcile of one scaler ends, failed
\* or not, leaves every other coroutine as it was.
C4_OthersUntouched ==
    \A id \in TaskIds :
        Ends(id) => \A other \in TaskIds \ {id} :
                       tasks'[other[1]][other[2]] = Task(other)

\* C4 (later ticks): whenever the list call returns the objects, a coroutine
\* is started for every one of them, whatever became of its earlier ones.
C4_AllRelaunched ==
    (loop.pc = "list" /\ loop'.pc = "gather" /\ loop'.awaiting # {}) =>
        \A i \in ScalerIds : \E k \in Slots :
            /\ tasks[i][k].pc = "free"
            /\ tasks'[i][k].pc = "start"
            /\ <<i, k>> \in loop'.awaiting

Unchanged(t) ==
    t.pc \in {"status", "patch", "patched"} /\ t.desired_replicas = t.current_replicas

\* C5 (no patch): no target patch is issued by a reconcile whose desired
\* count equals the current count.
C5_NoPatchIssued ==
    \A id \in TaskIds :
        Task(id).pc \in {"patch", "patched"} =>
            Task(id).desired_replicas # Task(id).current_replicas

\* C5 (frame): the steps of such a reconcile change neither the target's
\* replica count nor the cooldown ledger.
C5_StepsChangeNothing ==
    \A id \in TaskIds :
        (/\ tasks'[id[1]][id[2]] # Task(id)
         /\ Unchanged(Task(id)) \/ Unchanged(tasks'[id[1]][id[2]]))
        => /\ deployments' = deployments
           /\ last_scale_operations' = last_scale_operations

-----------------------------------------------------------------------------
(* Duration parsing                                                        *)

ParseDone == probe.fn = "parse_duration" /\ probe.done

\* a non-empty run of decimal digits followed by exactly one of s, m, h, d
WellFormedDuration(s) ==
    /\ Len(s) >= 2
    /\ s[Len(s)] \in {"s", "m", "h", "d"}
    /\ \A i \in 1..(Len(s) - 1) : IsDigit(s[i])

\* C11: _parse_duration returns n * unit_seconds for every string that is a
\* non-empty run of decimal digits n followed by one of s, m, h, d, and
\* returns 300 for every other string, without raising.
C11_DurationParsing ==
    ParseDone =>
        /\ probe.result.exc = "none"
        /\ probe.result.value =
               IF WellFormedDuration(probe.duration_str)
               THEN DigitsValue(SubSeq(probe.duration_str, 1,
                                       Len(probe.duration_str) - 1))
                    * units[probe.duration_str[Len(probe.duration_str)]]
               ELSE InvalidDurationSeconds

-----------------------------------------------------------------------------
(* Controller loop                                                         *)

ListFailed == loop.listed \in {"ApiException", "Exception"}

\* C12: whenever the list call of a tick fails (any failure, an orchestrator
\* API error included), the loop launches no reconcile in that tick and its
\* sleep is the 10 s back-off, not the 30 s tick period.
C12_ListFailureBacksOff ==
    (loop.pc \in {"gather", "sleep"} /\ ListFailed) =>
        /\ loop.awaiting = {}
        /\ loop.pc = "sleep" => loop.delay = ErrorSleep

\* run() is in its except clause: the 10 s sleep
OnErrorPath == loop.pc = "sleep" /\ loop.delay = ErrorSleep

\* C13: no failure inside a reconciler invocation propagates to the main
\* loop: the loop is on its error path only when the list call failed.
C13_OnlyListingReachesErrorPath == OnErrorPath => ListFailed

-----------------------------------------------------------------------------
(* Cooldown ledger and reconcile exits                                     *)

ScalerName(i) == scalers[i].metadata.name

\* the coroutine moves in this step
Moves(id) == tasks'[id[1]][id[2]] # Task(id)

\* C14 (only if): the ledger changes only in a step of a coroutine whose
\* target patch has returned, and only in the entry of that scaler; and a
\* coroutine gets there only by its patch being applied.
C14_WriteOnlyAfterPatch ==
    /\ last_scale_operations' # last_scale_operations =>
           \E id \in TaskIds :
               /\ Task(id).pc = "patched"
               /\ Moves(id)
               /\ last_scale_operations' =
                      (ScalerName(id[1]) :> clock) @@ last_scale_operations
    /\ \A id \in TaskIds :
           (Moves(id) /\ tasks'[id[1]][id[2]].pc = "patched") =>
               /\ Task(id).pc = "patch"
               /\ Task(id).limited_replicas # Task(id).current_replicas
               /\ deployments'[DeploymentKey(scalers[id[1]])] =
                      Task(id).limited_replicas

\* C14 (if): once its target patch has returned, the coroutine's next step
\* writes the ledger entry of its scaler with the time of that step.
C14_PatchIsRecorded ==
    \A id \in TaskIds :
        (Task(id).pc = "patched" /\ Moves(id)) =>
            /\ ScalerName(id[1]) \in DOMAIN last_scale_operations'
            /\ last_scale_operations'[ScalerName(id[1])] = clock

\* C14: within a reconcile the ledger entry of the scaler is written if and
\* only if a target patch was issued and succeeded, after the patch returned;
\* a failed patch, a cooldown-blocked reconcile and a rate limit that leaves
\* limited == current write nothing.
C14_LedgerWrittenIffPatched ==
    [][C14_WriteOnlyAfterPatch /\ C14_PatchIsRecorded]_vars

\* one scaler has patched and recorded its scale, while the reconcile of a
\* scaler whose rate limit is zero is at its status patch with desired
\* different from current and no ledger entry
C14_Witness ==
    \E id \in TaskIds, other \in TaskIds :
        /\ Task(id).pc = "status"
        /\ Task(id).limited_replicas > 0
        /\ ScalerName(id[1]) \in DOMAIN last_scale_operations
        /\ last_scale_operations[ScalerName(id[1])] = clock
        /\ Task(other).pc = "status"
        /\ Task(other).desired_replicas # Task(other).current_replicas
        /\ Task(other).reason = "ScalingApplied"
        /\ Task(other).status_replicas = Task(other).current_replicas
        /\ ScalerName(other[1]) \notin DOMAIN last_scale_operations

\* the coroutines of scaler i that are in progress
Running(i) == {k \in Slots : tasks[i][k].pc # "free"}

\* C15: the loop sleeps and lists again only once every reconcile of the
\* current tick has completed, so at most one reconcile of a scaler object is
\* in progress at any moment.
C15_TickBarrier ==
    /\ loop.pc \in {"sleep", "list"} => \A i \in ScalerIds : Running(i) = {}
    /\ \A i \in ScalerIds : Cardinality(Running(i)) <= 1

\* what can_scale answers scaler j for a direction, against a ledger
Verdict(ledger, j, direction) ==
    can_scale(ledger, clock, ScalerName(j),
              Get(Spec_(scalers[j]), "safety", EmptyDict), direction)

\* C16: cooldown state is per scaler key (namespace, name): a scale recorded
\* for one scaler changes the result of can_scale for no other scaler, two
\* objects of the same name in different namespaces included.
C16_LedgerPerScalerKey ==
    [][\A id \in TaskIds :
          (Task(id).pc = "patched" /\ Moves(id)) =>
              \A j \in ScalerIds \ {id[1]} : \A direction \in {"up", "down"} :
                  ~MetadataMissing(scalers[j]) =>
                      Verdict(last_scale_operations', j, direction)
                          = Verdict(last_scale_operations, j, direction)]_vars

\* the samples the reconcile of scaler i collects
Samples(i) == collect_metrics(Get(Spec_(scalers[i]), "metrics", << >>))

\* C17: a reconcile that exits early because targetRef.name is absent,
\* because the target read fails or because no sample was collected issues
\* no target patch and no status patch and leaves the ledger as it was: up to
\* and including its exit none of its steps changes the deployments, the
\* status or the ledger, and without a target name or a sample it does exit.
C17_StepsOfEarlyExit ==
    \A id \in TaskIds :
        Moves(id) =>
            /\ (Task(id).pc \in {"start", "read"}
                /\ tasks'[id[1]][id[2]].pc \in {"read", "free"}) =>
                   UNCHANGED <<deployments, status, last_scale_operations,
                               scale_log>>
            /\ (Task(id).pc = "start" /\ ~MetadataMissing(scalers[id[1]])
                /\ TargetName(scalers[id[1]]) = "") =>
                   tasks'[id[1]][id[2]].pc = "free"
            /\ (Task(id).pc = "read" /\ Samples(id[1]) = << >>) =>
                   tasks'[id[1]][id[2]].pc = "free"

C17_EarlyExitChangesNothing == [][C17_StepsOfEarlyExit]_vars

\* a tick is over in which one reconcile exited for want of a target name and
\* the other for want of samples: no status was written, the ledger is empty
C17_Witness ==
    /\ TargetName(scalers[1]) = ""
    /\ Samples(2) = << >>
    /\ loop.pc = "sleep"
    /\ loop.listed = "returned"
    /\ loop.delay = TickSleep
    /\ \A i \in ScalerIds : ~status[i].written
    /\ last_scale_operations = EmptyDict

-----------------------------------------------------------------------------
(* Status writes                                                           *)

\* C18 (the decision): when the reconcile has the target's replica count and
\* goes on to a patch or a status patch, its reason is "CooldownActive" if
\* and only if desired != current and can_scale refused the direction;
\* with that reason it goes to the status patch and reports the replica
\* count read from the target; any other reason is "ScalingApplied".
C18_ReasonDecided ==
    \A id \in TaskIds :
        LET after == tasks'[id[1]][id[2]]
        IN  (Task(id).pc = "read" /\ Moves(id) /\ after.pc # "free") =>
                /\ after.reason \in {"CooldownActive", "ScalingApplied"}
                /\ after.reason = "CooldownActive" <=>
                       /\ after.desired_replicas # after.current_replicas
                       /\ ~Verdict(last_scale_operations, id[1],
                                   Direction(after)).ret
                /\ after.reason = "CooldownActive" =>
                       /\ after.pc = "status"
                       /\ after.status_replicas = after.replicas

\* C18 (the write): the status written is the count and the reason the
\* reconcile decided on, and a reconcile with reason "CooldownActive" never
\* patches the target.
C18_StatusAsDecided ==
    /\ \A i \in ScalerIds :
           status'[i] # status[i] =>
               \E k \in Slots :
                   /\ tasks[i][k].pc = "status"
                   /\ status'[i].reason = tasks[i][k].reason
                   /\ status'[i].currentReplicas = tasks[i][k].status_replicas
    /\ \A id \in TaskIds :
           Task(id).reason = "CooldownActive" => Task(id).pc = "status"

\* C18: a reconcile writes reason "CooldownActive" if and only if desired !=
\* current and can_scale returned false; it then issues no target patch and
\* reports the replica count read from the target; every other status write
\* carries "ScalingApplied".
C18_CooldownActiveReason == [][C18_ReasonDecided /\ C18_StatusAsDecided]_vars

-----------------------------------------------------------------------------
(* Progress of the controller loop                                         *)

\* the model's clock can still reach the end of the loop's sleep: time is
\* observed every TickSleep seconds up to MaxClock
SleepEndsInTime ==
    (loop.wake_at - loop.delay) + TickSleep <= MaxClock

\* C19: when every orchestrator call returns or fails and the loop is
\* scheduled fairly, the loop never stops or gets stuck: the list call is
\* answered, the tick ends (normally or on the error path) in a sleep, and
\* after the sleep the loop lists the scalers again.
C19_LoopListsAgain ==
    /\ (loop.pc = "list") ~> (loop.pc # "list")
    /\ (loop.pc = "gather") ~> (loop.pc = "sleep")
    /\ (loop.pc = "sleep" /\ SleepEndsInTime) ~> (loop.pc = "list")

\* the loop lists again after the error path of a tick: a reconcile raised
\* in the first tick, the loop slept its 10 s and is back at the list call
\* while a coroutine of that tick is still in progress
C19_Witness ==
    /\ loop.pc = "list"
    /\ clock > InitClock
    /\ \E id \in TaskIds : Task(id).pc # "free"


ProbeSloTarget == Get(probe.policy_config, "sloTarget", 80)

\* trunc(current * m / target) of the probe, the quotient taken exactly
ProbeExactRaw == Trunc(probe.current_replicas * ProbeTotal, ProbeCount * ProbeSloTarget)

ProbeClamp(raw) == Max(ProbeMin, Min(ProbeMax, raw))

\* C20: under the SLO policy the result is
\* clamp(trunc(current * m / target), minReplicas, maxReplicas) when
\* target > 0 and clamp(current, minReplicas, maxReplicas) when target <= 0,
\* with m the mean of the samples (0 if there are none), and is therefore
\* within [minReplicas, maxReplicas].
C20_SloResult ==
    (PolicyDone /\ ProbeType = "slo") =>
        /\ probe.result = ProbeClamp(IF ProbeSloTarget > 0 THEN ProbeExactRaw ELSE probe.current_replicas)
        /\ ProbeMin <= probe.result
        /\ probe.result <= ProbeMax

\* the parts of C20 that do not depend on how the product is rounded: the
\* result is within the bounds, it is clamp(current) when target <= 0, and
\* for target > 0 it is the clamp of a count that differs from
\* trunc(current * m / target) by at most one
C20_SloResultUpToRounding ==
    (PolicyDone /\ ProbeType = "slo") =>
        /\ ProbeMin <= probe.result
        /\ probe.result <= ProbeMax
        /\ ProbeSloTarget <= 0 => probe.result = ProbeClamp(probe.current_replicas)
        /\ ProbeSloTarget > 0 =>
               \E raw \in (ProbeExactRaw - 1)..(ProbeExactRaw + 1) : probe.result = ProbeClamp(raw)

\* an SLO call whose result is below the bounds' clamp of the exact value
C20_RoundedBelowExact ==
    /\ PolicyDone
    /\ ProbeType = "slo"
    /\ ProbeSloTarget > 0
    /\ probe.result < ProbeClamp(ProbeExactRaw)


Opposite(direction) == IF direction = "up" THEN "down" ELSE "up"

\* the orchestrator applies the target patch of this coroutine in this step
Patches(id) == Task(id).pc = "patch" /\ tasks'[id[1]][id[2]].pc = "patched"

\* C21: after a successful scale of a scaler in either direction at time t,
\* no reconcile of that scaler patches the target in the opposite direction
\* before t + the opposite direction's configured cooldown: a scale-up also
\* starts the scale-down cooldown, and a scale-down the scale-up cooldown.
C21_OppositePatchAfterCooldown ==
    [][\A id \in (DOMAIN scalers) \X Slots :
          (Patches(id) /\ scale_log[id[1]][Opposite(Direction(Task(id)))].last >= 0)
          => clock >= scale_log[id[1]][Opposite(Direction(Task(id)))].last
                      + ScalerCooldown(id[1], Direction(Task(id)))]_vars

=============================================================================
